---------------------------- MODULE Spec2Model ----------------------------
(***************************************************************************)
(* A model of app.py, the artistic QR renderer: parameter clamping, the    *)
(* protected-zone classifier, the artwork normaliser and the /generate     *)
(* handler (mask selection, suppression, rendering, quiet zone).           *)
(*                                                                         *)
(* Numbers.  Python floats are modelled as exact decimals: a parameter     *)
(* value v stands for v/1000 ("milli"), a white-dot scale for v/1000000    *)
(* ("micro").  Luminances are in units of 1/255.  Coordinates and          *)
(* counts are integers.  IEEE rounding of the float products is not        *)
(* modelled.                                                               *)
(*                                                                         *)
(* External code.  segno (the encoder), requests (the fetch) and PIL (the  *)
(* raster operations) are not part of app.py.  They are modelled by what   *)
(* their documentation says: ImageDraw.rectangle fills both end points     *)
(* inclusive, ImageDraw.ellipse stays inside its bounding box, paste with  *)
(* a mask blends by the mask's alpha, BOX resize averages a block.         *)
(***************************************************************************)
EXTENDS Integers, Sequences, FiniteSets, TLC

VARIABLES
    pc,        \* "call" before the operation ran, "done" after it
    call,      \* pure-function specifications: the function and its arguments
    ret,       \* pure-function specifications: the value returned
    request,   \* generate: request.args (data, art, dot, wash, budget)
    net,       \* generate: what requests.get + Image.open yield for the art URL
    resp,      \* generate: the response (status, image or none)
    loc        \* generate: the handler's locals when it returns

vars == <<pc, call, ret, request, net, resp, loc>>

None == [none |-> TRUE]

\* the function f with every value computed once, when it is built (a function
\* written [x \in S |-> e] computes e again each time it is applied)
Stored(f) == f @@ <<>>

Min2(a, b) == IF a <= b THEN a ELSE b
Max2(a, b) == IF a >= b THEN a ELSE b
Abs(a) == IF a < 0 THEN -a ELSE a

(***************************************************************************)
(* Floats: finite milli-values, the two infinities and not-a-number.       *)
(***************************************************************************)
Fin(v) == [t |-> "fin", v |-> v]
PInf == [t |-> "pinf", v |-> 0]
NInf == [t |-> "ninf", v |-> 0]
NaN == [t |-> "nan", v |-> 0]

\* a < b on floats: every comparison with not-a-number is false
FloatLT(a, b) ==
    CASE a.t = "nan" \/ b.t = "nan" -> FALSE
      [] a.t = "pinf" -> FALSE
      [] b.t = "ninf" -> FALSE
      [] a.t = "ninf" -> TRUE
      [] b.t = "pinf" -> TRUE
      [] OTHER -> a.v < b.v

\* Python's min(a, b): the first argument unless the second is smaller
PyMin(a, b) == IF FloatLT(b, a) THEN b ELSE a
\* Python's max(a, b): the first argument unless the second is greater
PyMax(a, b) == IF FloatLT(a, b) THEN b ELSE a

(***************************************************************************)
(* float(v).  A query parameter is absent (None), a decimal literal        *)
(* [kind |-> "num", milli |-> m], or some other text.                      *)
(***************************************************************************)
Absent == [kind |-> "None", text |-> "", milli |-> 0]
Text(s) == [kind |-> "str", text |-> s, milli |-> 0]
Num(m) == [kind |-> "num", text |-> "", milli |-> m]

InfTexts == {"inf", "Infinity", "1e999"}
NegInfTexts == {"-inf", "-1e999"}
NanTexts == {"nan", "NaN"}
JunkTexts == {"", "abc", "0,5", "0x10", "--1"}

\* [raised, value]: float(None) is a TypeError, float("abc") a ValueError
PyFloat(v) ==
    CASE v.kind = "None" -> [raised |-> TRUE, value |-> NaN]
      [] v.kind = "num" -> [raised |-> FALSE, value |-> Fin(v.milli)]
      [] v.text \in InfTexts -> [raised |-> FALSE, value |-> PInf]
      [] v.text \in NegInfTexts -> [raised |-> FALSE, value |-> NInf]
      [] v.text \in NanTexts -> [raised |-> FALSE, value |-> NaN]
      [] OTHER -> [raised |-> TRUE, value |-> NaN]

clampNoUpper(v, lo, hi, default) ==
    LET x == PyFloat(v)
    IN  IF x.raised THEN Fin(default) ELSE PyMax(Fin(lo), x.value)

clamp(v, lo, hi, default) ==
    LET x == PyFloat(v)
    IN  IF x.raised THEN Fin(default)
        ELSE PyMax(Fin(lo), PyMin(Fin(hi), x.value))

\* the three calls generate makes: lo, hi, default in milli
DotRange == [lo |-> 550, hi |-> 920, default |-> 780]
WashRange == [lo |-> 0, hi |-> 600, default |-> 200]
BudgetRange == [lo |-> 0, hi |-> 180, default |-> 80]

(***************************************************************************)
(* The protected-zone classifier.                                          *)
(***************************************************************************)
qr_size_from_version(version) == 17 + 4 * version

RECURSIVE MidCenters(_, _, _, _)
\* the loop "for i in range(num - 2): centers.append(last - (num-3-i)*step)"
MidCenters(i, num, last, step) ==
    IF i >= num - 2 THEN <<>>
    ELSE <<last - (num - 3 - i) * step>> \o MidCenters(i + 1, num, last, step)

alignment_centers(version) ==
    IF version <= 1 THEN <<>>
    ELSE LET n == qr_size_from_version(version)
             num == (version \div 7) + 2
             step0 == (n - 13) \div (num - 1)
             step == IF step0 % 2 = 1 THEN step0 + 1 ELSE step0
             last == n - 7
         IN  IF num = 2 THEN <<6, n - 7>>
             ELSE <<6>> \o MidCenters(0, num, last, step) \o <<last>>

in_finder_or_separator(r, c, n) ==
    \/ r <= 8 /\ c <= 8
    \/ r <= 8 /\ c >= n - 9
    \/ r >= n - 9 /\ c <= 8

in_timing(r, c, n) ==
    \/ r = 6 /\ 8 <= c /\ c <= n - 9
    \/ c = 6 /\ 8 <= r /\ r <= n - 9

in_format_info(r, c, n) ==
    \/ r = 8 /\ (c <= 8 \/ c >= n - 9)
    \/ c = 8 /\ (r <= 8 \/ r >= n - 9)

in_alignment(r, c, version) ==
    IF version <= 1 THEN FALSE
    ELSE LET centers == alignment_centers(version)
             n == qr_size_from_version(version)
         IN  \E i \in 1..Len(centers) : \E j \in 1..Len(centers) :
                LET cy == centers[i]
                    cx == centers[j]
                IN  /\ ~ \/ cx = 6 /\ cy = 6
                         \/ cx = 6 /\ cy = n - 7
                         \/ cx = n - 7 /\ cy = 6
                    /\ Abs(r - cy) <= 2
                    /\ Abs(c - cx) <= 2

is_protected(r, c, n, version) ==
    \/ in_finder_or_separator(r, c, n)
    \/ in_timing(r, c, n)
    \/ in_format_info(r, c, n)
    \/ in_alignment(r, c, version)

(***************************************************************************)
(* Reference: the function-module layout of ISO/IEC 18004, which the       *)
(* encoder follows.  Alignment centres are the table of Annex E.           *)
(***************************************************************************)
StdAlignmentCenters ==
    << <<>>, <<6, 18>>, <<6, 22>>, <<6, 26>>, <<6, 30>>, <<6, 34>>,
       <<6, 22, 38>>, <<6, 24, 42>>, <<6, 26, 46>>, <<6, 28, 50>>,
       <<6, 30, 54>>, <<6, 32, 58>>, <<6, 34, 62>>,
       <<6, 26, 46, 66>>, <<6, 26, 48, 70>>, <<6, 26, 50, 74>>,
       <<6, 30, 54, 78>>, <<6, 30, 56, 82>>, <<6, 30, 58, 86>>,
       <<6, 34, 62, 90>>,
       <<6, 28, 50, 72, 94>>, <<6, 26, 50, 74, 98>>, <<6, 30, 54, 78, 102>>,
       <<6, 28, 54, 80, 106>>, <<6, 32, 58, 84, 110>>, <<6, 30, 58, 86, 114>>,
       <<6, 34, 62, 90, 118>>,
       <<6, 26, 50, 74, 98, 122>>, <<6, 30, 54, 78, 102, 126>>,
       <<6, 26, 52, 78, 104, 130>>, <<6, 30, 56, 82, 108, 134>>,
       <<6, 34, 60, 86, 112, 138>>, <<6, 30, 58, 86, 114, 142>>,
       <<6, 34, 62, 90, 118, 146>>,
       <<6, 30, 54, 78, 102, 126, 150>>, <<6, 24, 50, 76, 102, 128, 154>>,
       <<6, 28, 54, 80, 106, 132, 158>>, <<6, 32, 58, 84, 110, 136, 162>>,
       <<6, 26, 54, 82, 110, 138, 166>>, <<6, 30, 58, 86, 114, 142, 170>> >>

\* within the 5x5 block of a pair of centres, the three finder corners excluded
NearCenterPair(r, c, centers, n) ==
    \E i \in 1..Len(centers) : \E j \in 1..Len(centers) :
        /\ ~ \/ centers[i] = 6 /\ centers[j] = 6
             \/ centers[i] = 6 /\ centers[j] = n - 7
             \/ centers[i] = n - 7 /\ centers[j] = 6
        /\ Abs(r - centers[i]) <= 2
        /\ Abs(c - centers[j]) <= 2

StdFunctionModule(r, c, version) ==
    LET n == qr_size_from_version(version)
    IN  \/ r <= 7 /\ c <= 7                      \* finders and separators
        \/ r <= 7 /\ c >= n - 8
        \/ r >= n - 8 /\ c <= 7
        \/ r = 6 \/ c = 6                        \* timing
        \/ r = 8 /\ (c <= 8 \/ c >= n - 8)       \* format information
        \/ c = 8 /\ (r <= 8 \/ r >= n - 8)       \* ... and the dark module
        \/ NearCenterPair(r, c, StdAlignmentCenters[version], n)
        \/ /\ version >= 7                       \* version information
           /\ \/ r <= 5 /\ n - 11 <= c /\ c <= n - 9
              \/ c <= 5 /\ n - 11 <= r /\ r <= n - 9

(***************************************************************************)
(* SpecZones: the classifier as a pure function.  A call names a version   *)
(* and a row; the row is classified cell by cell.                          *)
(***************************************************************************)
GenerateIdle ==
    /\ request = None
    /\ net = None
    /\ resp = None
    /\ loc = None

ZoneCalls ==
    {[fn |-> "alignment_centers", version |-> v, r |-> 0] : v \in 1..40}
    \cup
    UNION {{[fn |-> "is_protected", version |-> v, r |-> r] :
                r \in 0..(qr_size_from_version(v) - 1)} : v \in 1..40}

InitZones ==
    /\ pc = "call"
    /\ call \in ZoneCalls
    /\ ret = None
    /\ GenerateIdle

CallAlignmentCenters ==
    /\ pc = "call"
    /\ call.fn = "alignment_centers"
    /\ ret' = alignment_centers(call.version)
    /\ pc' = "done"
    /\ UNCHANGED <<call, request, net, resp, loc>>

CallIsProtected ==
    /\ pc = "call"
    /\ call.fn = "is_protected"
    /\ LET n == qr_size_from_version(call.version)
       IN  ret' = [c \in 0..(n - 1) |->
                     [is_protected |-> is_protected(call.r, c, n, call.version),
                      in_alignment |-> in_alignment(call.r, c, call.version)]]
    /\ pc' = "done"
    /\ UNCHANGED <<call, request, net, resp, loc>>

NextZones == CallAlignmentCenters \/ CallIsProtected

SpecZones == InitZones /\ [][NextZones]_vars

\* C3: for versions 1, 2, 7, 10 and 40, is_protected(r, c, n, version) is true
\* exactly for the function modules of the standard layout, and false for
\* every data module.
C3_ProtectedIsStandardLayout ==
    (pc = "done" /\ call.fn = "is_protected" /\ call.version \in {1, 2, 7, 10, 40})
        => \A c \in DOMAIN ret :
              ret[c].is_protected <=> StdFunctionModule(call.r, c, call.version)

\* C4: for every version 2..40 alignment_centers returns the standard centres,
\* in_alignment is true exactly in the 5x5 blocks of the pairs of standard
\* centres other than the three finder corners, and it is false for version 1.
C4_AlignmentIsStandard ==
    /\ (pc = "done" /\ call.fn = "alignment_centers" /\ call.version >= 2)
          => ret = StdAlignmentCenters[call.version]
    /\ (pc = "done" /\ call.fn = "is_protected")
          => \A c \in DOMAIN ret :
                ret[c].in_alignment <=>
                    /\ call.version >= 2
                    /\ NearCenterPair(call.r, c, StdAlignmentCenters[call.version],
                                      qr_size_from_version(call.version))

(***************************************************************************)
(* Images.  A pixel is <<r, g, b, a>>.  An image is a w x h raster holding *)
(* one rectangle of colour ink, box = <<left, top, right, bottom>> with    *)
(* right and bottom exclusive, on a ground of colour pad.                  *)
(***************************************************************************)
Transparent == <<0, 0, 0, 0>>
White == <<255, 255, 255, 255>>
Black == <<0, 0, 0, 255>>

Image(w, h, box, ink, pad) == [w |-> w, h |-> h, box |-> box, ink |-> ink, pad |-> pad]
Solid(w, h, ink) == Image(w, h, <<0, 0, w, h>>, ink, ink)

InBox(x, y, box) == box[1] <= x /\ x < box[3] /\ box[2] <= y /\ y < box[4]
PixelAt(img, x, y) == IF InBox(x, y, img.box) THEN img.ink ELSE img.pad

\* the bounding box of the pixels kept, None if there are none; inkKept and
\* padKept say whether a pixel of colour img.ink, img.pad is kept
BBoxWhere(img, inkKept, padKept) ==
    LET hit(x, y) == IF InBox(x, y, img.box) THEN inkKept ELSE padKept
        \* the rows and columns that decide a column's or a row's colours
        ys == {0, img.h - 1, img.box[2], img.box[4] - 1} \cap (0..(img.h - 1))
        xs == {0, img.w - 1, img.box[1], img.box[3] - 1} \cap (0..(img.w - 1))
        cols == {x \in 0..(img.w - 1) : \E y \in ys : hit(x, y)}
        rows == {y \in 0..(img.h - 1) : \E x \in xs : hit(x, y)}
        least(S) == CHOOSE m \in S : \A k \in S : m <= k
        most(S) == CHOOSE m \in S : \A k \in S : m >= k
    IN  IF cols = {} \/ rows = {} THEN None
        ELSE <<least(cols), least(rows), most(cols) + 1, most(rows) + 1>>

\* mask = a.point(lambda p: 255 if p > alpha_threshold else 0); mask.getbbox()
_bbox_nontransparent(img, alpha_threshold) ==
    LET above(px) == px[4] > alpha_threshold
    IN  BBoxWhere(img, above(img.ink), above(img.pad))

\* extents of the pixels with a # 0 and 0.299 r + 0.587 g + 0.114 b < lum_threshold
_bbox_nonwhite(img, lum_threshold) ==
    LET dark(px) == /\ px[4] # 0
                    /\ 299 * px[1] + 587 * px[2] + 114 * px[3] < 1000 * lum_threshold
    IN  BBoxWhere(img, dark(img.ink), dark(img.pad))

\* Image.crop(bbox), bbox inside the image
Crop(img, bbox) ==
    LET w == bbox[3] - bbox[1]
        h == bbox[4] - bbox[2]
        l == Max2(img.box[1], bbox[1]) - bbox[1]
        t == Max2(img.box[2], bbox[2]) - bbox[2]
        r == Min2(img.box[3], bbox[3]) - bbox[1]
        b == Min2(img.box[4], bbox[4]) - bbox[2]
    IN  IF l < r /\ t < b THEN Image(w, h, <<l, t, r, b>>, img.ink, img.pad)
        ELSE Image(w, h, <<0, 0, 0, 0>>, img.ink, img.pad)

\* round(num / den), halves to the even neighbour (Python 3), num >= 0, den > 0
RoundHalfEven(num, den) ==
    LET q == num \div den
        rem == num % den
    IN  IF 2 * rem < den THEN q
        ELSE IF 2 * rem > den THEN q + 1
        ELSE IF q % 2 = 0 THEN q ELSE q + 1

\* a "cover" fit: max(side_px / w, side_px / h)
CoverScale(w, h, side_px) ==
    IF side_px * h >= side_px * w THEN <<side_px, w>> ELSE <<side_px, h>>

\* scale = min(side_px / w, side_px / h), as <<numerator, denominator>>
ContainScale(w, h, side_px) ==
    IF side_px * h <= side_px * w THEN <<side_px, w>> ELSE <<side_px, h>>

\* "if bbox: img = img.crop(bbox)" after the transparent margins are measured
TrimTransparent(art, bbox) == IF bbox # None THEN Crop(art, bbox) ELSE art

\* "if bbox2 and (bbox2[2] - bbox2[0] < img.size[0] or ...): img = img.crop(bbox2)"
TrimWhite(art1, bbox2) ==
    IF /\ bbox2 # None
       /\ \/ bbox2[3] - bbox2[1] < art1.w
          \/ bbox2[4] - bbox2[2] < art1.h
    THEN Crop(art1, bbox2) ELSE art1

\* the artwork after both trims
Trimmed(art1) == TrimWhite(art1, _bbox_nonwhite(art1, 250))

\* the square with the resized artwork pasted at its centre
PasteCentred(art2, side_px, new_w, new_h) ==
    [size |-> <<side_px, side_px>>, new_w |-> new_w, new_h |-> new_h,
     ox |-> (side_px - new_w) \div 2, oy |-> (side_px - new_h) \div 2,
     art |-> art2]

\* new_w = max(1, int(round(w * scale))), new_h likewise
Resize(art2, side_px, scale) ==
    PasteCentred(art2, side_px,
                 Max2(1, RoundHalfEven(art2.w * scale[1], scale[2])),
                 Max2(1, RoundHalfEven(art2.h * scale[1], scale[2])))

\* the square for the trimmed artwork, blank when nothing is left of it
FitSquare(art2, side_px) ==
    IF art2.w <= 0 \/ art2.h <= 0
    THEN [size |-> <<side_px, side_px>>, new_w |-> 0, new_h |-> 0,
          ox |-> 0, oy |-> 0, art |-> None]
    ELSE Resize(art2, side_px, ContainScale(art2.w, art2.h, side_px))

\* The square returned: its side, the placement of the resized artwork in it
\* (new_w x new_h at (ox, oy)), and the trimmed artwork that was resized (None
\* when the square is blank).
normalize_artwork_into_square(art, side_px) ==
    FitSquare(Trimmed(TrimTransparent(art, _bbox_nontransparent(art, 8))), side_px)

\* One channel of Image.paste(src, mask): src where the mask is 255, dst where 0
Blend(dst, src, m) == (src * m + dst * (255 - m) + 127) \div 255

\* dst.paste(src, mask = src): every channel, alpha included, blended by src's alpha
PasteOver(dst, src) ==
    <<Blend(dst[1], src[1], src[4]), Blend(dst[2], src[2], src[4]),
      Blend(dst[3], src[3], src[4]), Blend(dst[4], src[4], src[4])>>

\* The pixel of the square at (x, y): transparent outside the pasted artwork;
\* inside it the resized artwork's pixel (the source pixel it covers) pasted
\* through its own alpha onto the transparent square.
SquarePixel(sq, x, y) ==
    IF /\ sq.art # None
       /\ sq.ox <= x /\ x < sq.ox + sq.new_w
       /\ sq.oy <= y /\ y < sq.oy + sq.new_h
    THEN PasteOver(Transparent,
                   PixelAt(sq.art, ((x - sq.ox) * sq.art.w) \div sq.new_w,
                                   ((y - sq.oy) * sq.art.h) \div sq.new_h))
    ELSE Transparent

(***************************************************************************)
(* SpecNormalize: normalize_artwork_into_square as a pure function.        *)
(***************************************************************************)
MaxDim == 6

NormDims == (0..MaxDim) \cup {100, 400}
NormSides == {5, 336, 400, 800}

\* solid images, and black content inside a one-pixel transparent or white frame
NormArts ==
    {Solid(w, h, ink) : w \in NormDims, h \in NormDims,
                        ink \in {Black, White, Transparent}}
    \cup
    {Image(w, h, <<1, 1, w - 1, h - 1>>, Black, pad) :
        w \in NormDims \ (0..2), h \in NormDims \ (0..2), pad \in {Transparent, White}}

InitNormalize ==
    /\ pc = "call"
    /\ call \in {[fn |-> "normalize_artwork_into_square", art |-> a, side_px |-> sd] :
                    a \in NormArts, sd \in NormSides}
    /\ ret = None
    /\ GenerateIdle

CallNormalize ==
    /\ pc = "call"
    /\ call.fn = "normalize_artwork_into_square"
    /\ ret' = normalize_artwork_into_square(call.art, call.side_px)
    /\ pc' = "done"
    /\ UNCHANGED <<call, request, net, resp, loc>>

NextNormalize == CallNormalize

SpecNormalize == InitNormalize /\ [][NextNormalize]_vars

\* the call returned and trimmed nothing off a source with content
NormalizedUntrimmed ==
    /\ pc = "done"
    /\ call.fn = "normalize_artwork_into_square"
    /\ ret.art # None
    /\ ret.art.w = call.art.w
    /\ ret.art.h = call.art.h

\* C9: with no border trimmed the square is side_px x side_px, the larger
\* dimension of the content is scaled to exactly side_px, neither dimension
\* exceeds it, the smaller one is the aspect-preserving size rounded to a
\* pixel (at least 1), the content is centred at ((side_px - new_w) \div 2,
\* (side_px - new_h) \div 2) with transparent pixels around it, and 400x100
\* into 800 gives 800x200 with 300-pixel bands above and below.
C9_NormalizeContainCentred ==
    NormalizedUntrimmed =>
        LET w == call.art.w
            h == call.art.h
            sd == call.side_px
        IN  /\ ret.size = <<sd, sd>>
            /\ Max2(ret.new_w, ret.new_h) = sd
            /\ ret.new_w <= sd /\ ret.new_h <= sd
            /\ w >= h => (ret.new_h = 1 \/ 2 * Abs(ret.new_h * w - h * sd) <= w)
            /\ h >= w => (ret.new_w = 1 \/ 2 * Abs(ret.new_w * h - w * sd) <= h)
            /\ ret.ox = (sd - ret.new_w) \div 2
            /\ ret.oy = (sd - ret.new_h) \div 2
            /\ \A x \in {0, ret.ox - 1, ret.ox + ret.new_w, sd - 1} \cap (0..(sd - 1)) :
               \A y \in {0, ret.oy - 1, ret.oy + ret.new_h, sd - 1} \cap (0..(sd - 1)) :
                  (x < ret.ox \/ x >= ret.ox + ret.new_w \/
                   y < ret.oy \/ y >= ret.oy + ret.new_h)
                      => SquarePixel(ret, x, y) = Transparent
            /\ (w = 400 /\ h = 100 /\ sd = 800) =>
                  /\ ret.new_w = 800 /\ ret.new_h = 200
                  /\ ret.ox = 0 /\ ret.oy = 300
                  /\ sd - (ret.oy + ret.new_h) = 300

\* the 400x100 source of the example, normalised into 800x800
C9_Witness ==
    /\ NormalizedUntrimmed
    /\ call.art = Solid(400, 100, Black)
    /\ call.side_px = 800
    /\ ret.new_h = 200
    /\ SquarePixel(ret, 400, 300) = Black
    /\ SquarePixel(ret, 400, 299) = Transparent

(***************************************************************************)
(* SpecClamp: clamp as a pure function, called as generate calls it.       *)
(***************************************************************************)
MaxRaw == 1200

RawValues ==
    {Absent}
    \cup {Text(t) : t \in InfTexts \cup NegInfTexts \cup NanTexts \cup JunkTexts}
    \cup {Num(m) : m \in (-MaxRaw)..MaxRaw}

InitClamp ==
    /\ pc = "call"
    /\ call \in {[fn |-> "clamp", v |-> v, range |-> rg] :
                    v \in RawValues, rg \in {DotRange, WashRange, BudgetRange}}
    /\ ret = None
    /\ GenerateIdle

CallClamp ==
    /\ pc = "call"
    /\ call.fn = "clamp"
    /\ ret' = clamp(call.v, call.range.lo, call.range.hi, call.range.default)
    /\ pc' = "done"
    /\ UNCHANGED <<call, request, net, resp, loc>>

NextClamp == CallClamp

SpecClamp == InitClamp /\ [][NextClamp]_vars

\* C8: whatever the raw value, clamp returns a finite number inside [lo, hi]:
\* a number inside the range unchanged, one below it (or minus infinity) the
\* lower bound, one above it (or plus infinity) the upper bound, and an absent
\* or unparseable value the default.
C8_ClampInRange ==
    (pc = "done" /\ call.fn = "clamp") =>
        LET lo == call.range.lo
            hi == call.range.hi
            v == call.v
        IN  /\ ret.t = "fin"
            /\ lo <= ret.v /\ ret.v <= hi
            /\ (v.kind = "num" /\ lo <= v.milli /\ v.milli <= hi) => ret.v = v.milli
            /\ (v.kind = "num" /\ v.milli < lo) => ret.v = lo
            /\ (v.kind = "num" /\ v.milli > hi) => ret.v = hi
            /\ (v.kind = "str" /\ v.text \in NegInfTexts) => ret.v = lo
            /\ (v.kind = "str" /\ v.text \in InfTexts) => ret.v = hi
            /\ (v.kind = "None" \/ (v.kind = "str" /\ v.text \in JunkTexts))
                  => ret.v = call.range.default

\* a not-a-number dot scale was clamped into the range
C8_Witness ==
    /\ pc = "done"
    /\ call.fn = "clamp"
    /\ call.v = Text("nan")
    /\ call.range = DotRange
    /\ ret = Fin(920)

(***************************************************************************)
(* The encoder, segno.make(data, error='h', mask=...), as generate sees    *)
(* it: a version chosen by the length of the data (byte mode, level H), a  *)
(* DataOverflowError beyond version 40, and a module matrix laid out as    *)
(* the standard says.  The data and format bits are stand-ins: error       *)
(* correction is not modelled.                                             *)
(***************************************************************************)
SegnoByteCapacityH ==
    <<7, 14, 24, 34, 44, 58, 64, 84, 98, 119, 137, 155, 177, 194, 220, 250,
      280, 310, 338, 382, 403, 439, 461, 511, 535, 593, 625, 658, 698, 742,
      790, 842, 898, 958, 983, 1051, 1093, 1139, 1219, 1273>>

\* the smallest version that holds the data, 0 if none does
SegnoVersion(data) ==
    LET fits == {v \in 1..40 : SegnoByteCapacityH[v] >= Len(data)}
    IN  IF fits = {} THEN 0 ELSE CHOOSE v \in fits : \A u \in fits : v <= u

\* the eight mask patterns of the standard
MaskBit(mask, r, c) ==
    CASE mask = 0 -> (r + c) % 2 = 0
      [] mask = 1 -> r % 2 = 0
      [] mask = 2 -> c % 3 = 0
      [] mask = 3 -> (r + c) % 3 = 0
      [] mask = 4 -> ((r \div 2) + (c \div 3)) % 2 = 0
      [] mask = 5 -> ((r * c) % 2) + ((r * c) % 3) = 0
      [] mask = 6 -> (((r * c) % 2) + ((r * c) % 3)) % 2 = 0
      [] OTHER -> (((r + c) % 2) + ((r * c) % 3)) % 2 = 0

\* a stand-in for the unmasked data and error-correction bits
DataBit(data, r, c) == ((r * 7 + c * 13 + r * c + Len(data)) % 5) < 2

Cheb(r, c, cy, cx) == Max2(Abs(r - cy), Abs(c - cx))

SegnoModule(data, version, mask, r, c) ==
    LET n == qr_size_from_version(version)
        cs == StdAlignmentCenters[version]
    IN  CASE r <= 7 /\ c <= 7 -> r <= 6 /\ c <= 6 /\ Cheb(r, c, 3, 3) # 2
          [] r <= 7 /\ c >= n - 8 -> r <= 6 /\ c >= n - 7 /\ Cheb(r, c, 3, n - 4) # 2
          [] r >= n - 8 /\ c <= 7 -> r >= n - 7 /\ c <= 6 /\ Cheb(r, c, n - 4, 3) # 2
          [] NearCenterPair(r, c, cs, n) ->
                \E i \in 1..Len(cs) : \E j \in 1..Len(cs) :
                    Cheb(r, c, cs[i], cs[j]) \in {0, 2}
          [] r = 6 \/ c = 6 -> (r + c) % 2 = 0
          [] r = n - 8 /\ c = 8 -> TRUE
          [] StdFunctionModule(r, c, version) -> (r + 2 * c + mask) % 3 = 0
          [] OTHER -> DataBit(data, r, c) # MaskBit(mask, r, c)

\* "mask = None": no mask index
NoMask == -1

\* a stand-in for the mask the encoder picks itself when none is asked for
SegnoAutoMask(data) == (3 * Len(data) + 2) % 8

\* the symbol of a version and a mask: version, mask, module matrix
SegnoSymbol(data, version, mask) ==
    IF version = 0
    THEN [raised |-> TRUE, version |-> 0, mask |-> mask, matrix |-> <<>>]
    ELSE [raised |-> FALSE, version |-> version, mask |-> mask,
          matrix |-> Stored([r \in 0..(qr_size_from_version(version) - 1) |->
                       Stored([c \in 0..(qr_size_from_version(version) - 1) |->
                          SegnoModule(data, version, mask, r, c)])])]

\* segno.make(data, error='h', mask=mask)
segno_make(data, mask) ==
    SegnoSymbol(data, SegnoVersion(data),
                IF mask = NoMask THEN SegnoAutoMask(data) ELSE mask)

\* qr.symbol_size()[0]: the width in modules with segno's default border of 4
symbol_size(version) == qr_size_from_version(version) + 2 * 4

(***************************************************************************)
(* Luminance.  A luminance y stands for y/255: the artwork pixels of the   *)
(* model are grey (r = g = b), for which the weights 0.299 + 0.587 + 0.114 *)
(* add up to exactly 1.                                                    *)
(***************************************************************************)
luminance_rgba(px) ==
    LET a == px[4]
        over(ch) == ch * a + 255 * (255 - a)      \* 255 * (ch*alpha + 255*(1-alpha))
    IN  IF a = 0 THEN 255 * 255
        ELSE (299 * over(px[1]) + 587 * over(px[2]) + 114 * over(px[3])) \div 1000

RoundDiv(num, den) == (2 * num + den) \div (2 * den)

\* Image.alpha_composite(dst, src): src over dst
AlphaComposite(dst, src) ==
    IF src[4] = 0 THEN dst
    ELSE LET blend == dst[4] * (255 - src[4])
             outa255 == src[4] * 255 + blend
             ch(i) == RoundDiv(src[i] * src[4] * 255 + dst[i] * blend, outa255)
         IN  <<ch(1), ch(2), ch(3), RoundDiv(outa255, 255)>>

\* int(255 * wash), wash in milli
OverlayAlpha(wash) == (255 * wash) \div 1000

\* "if wash > 0: art_square = alpha_composite(art_square, overlay)" on one pixel
Washed(px, wash) ==
    IF wash > 0 THEN AlphaComposite(px, <<255, 255, 255, OverlayAlpha(wash)>>) ELSE px

\* the mean of three pixel classes <<count, pixel>>, colours weighted by alpha
BoxAverage(k1, k2, k3) ==
    LET total == k1[1] + k2[1] + k3[1]
        A == k1[1] * k1[2][4] + k2[1] * k2[2][4] + k3[1] * k3[2][4]
        ch(i) == IF A = 0 THEN 0
                 ELSE RoundDiv(k1[1] * k1[2][4] * k1[2][i] + k2[1] * k2[2][4] * k2[2][i]
                                 + k3[1] * k3[2][4] * k3[2][i], A)
    IN  <<ch(1), ch(2), ch(3), RoundDiv(A, total)>>

\* the number of integers in [lo, hi) that are also in [a, b)
Overlap(lo, hi, a, b) == Max2(0, Min2(hi, b) - Max2(lo, a))

CeilDiv(num, den) == (num + den - 1) \div den

\* art_square.resize((n, n), Image.BOX): the module cell (r, c) of the washed
\* square, averaged over its cell x cell pixels.  The square holds three
\* kinds of pixel: outside the artwork, artwork ground, artwork ink.  A
\* column x of the square shows the source column ((x - ox) * w) \div new_w,
\* so the ink box <<l, t, r, b>> of the source covers the columns from
\* ox + ceil(l * new_w / w) up to ox + ceil(r * new_w / w), and so for rows.
TinyPixel(sq, wash, cell, r, c) ==
    IF sq.art = None
    THEN BoxAverage(<<cell * cell, Washed(Transparent, wash)>>,
                    <<0, Transparent>>, <<0, Transparent>>)
    ELSE LET x0 == cell * c
             y0 == cell * r
             visx == Overlap(x0, x0 + cell, sq.ox, sq.ox + sq.new_w)
             visy == Overlap(y0, y0 + cell, sq.oy, sq.oy + sq.new_h)
             inkx == Overlap(Max2(x0, sq.ox), Min2(x0 + cell, sq.ox + sq.new_w),
                             sq.ox + CeilDiv(sq.art.box[1] * sq.new_w, sq.art.w),
                             sq.ox + CeilDiv(sq.art.box[3] * sq.new_w, sq.art.w))
             inky == Overlap(Max2(y0, sq.oy), Min2(y0 + cell, sq.oy + sq.new_h),
                             sq.oy + CeilDiv(sq.art.box[2] * sq.new_h, sq.art.h),
                             sq.oy + CeilDiv(sq.art.box[4] * sq.new_h, sq.art.h))
         IN  BoxAverage(<<cell * cell - visx * visy, Washed(Transparent, wash)>>,
                        <<visx * visy - inkx * inky,
                          Washed(PasteOver(Transparent, sq.art.pad), wash)>>,
                        <<inkx * inky, Washed(PasteOver(Transparent, sq.art.ink), wash)>>)

(***************************************************************************)
(* Mask scoring.  A score [num, den] stands for num / (5100 * den): with   *)
(* y in 1/255, a dark module adds 255 - y = 20 * (65025 - y) / 5100 and a  *)
(* light one 0.35 * y = 7 * y / 5100.                                      *)
(***************************************************************************)
MatrixSize(matrix) == Cardinality(DOMAIN matrix)

\* one module's share: "total += ..." when counting is FALSE, "count += 1" when TRUE
ScoreTerm(matrix, luma, version, counting, r, c) ==
    IF is_protected(r, c, MatrixSize(matrix), version) THEN 0
    ELSE IF counting THEN 1
    ELSE IF matrix[r][c] THEN 20 * (255 * 255 - luma[r][c])
    ELSE 7 * luma[r][c]

RECURSIVE ScoreRow(_, _, _, _, _, _)
\* "for c in range(n)", from column c on
ScoreRow(matrix, luma, version, counting, r, c) ==
    IF c >= MatrixSize(matrix) THEN 0
    ELSE ScoreTerm(matrix, luma, version, counting, r, c)
            + ScoreRow(matrix, luma, version, counting, r, c + 1)

RECURSIVE ScoreRows(_, _, _, _, _)
\* "for r in range(n)", from row r on
ScoreRows(matrix, luma, version, counting, r) ==
    IF r >= MatrixSize(matrix) THEN 0
    ELSE ScoreRow(matrix, luma, version, counting, r, 0)
            + ScoreRows(matrix, luma, version, counting, r + 1)

score_mask(matrix, luma, version) ==
    [num |-> ScoreRows(matrix, luma, version, FALSE, 0),
     den |-> Max2(1, ScoreRows(matrix, luma, version, TRUE, 0))]

\* "best_score = -1e18": below every score
LowestScore == [num |-> -1, den |-> 0]

\* sc > best_score
ScoreGT(sc, best_score) ==
    CASE best_score = LowestScore -> sc # LowestScore
      [] sc = LowestScore -> FALSE
      [] sc.den = best_score.den -> sc.num > best_score.num
      [] OTHER -> sc.num * best_score.den > best_score.num * sc.den

\* the comparison with >= in the place of >
ScoreGE(sc, best_score) == ~ScoreGT(best_score, sc)

\* "if sc > best_score": the candidate replaces the best so far
Better(sc, best_score) == ScoreGT(sc, best_score)

\* "if sc > best_score: best_* = ..."
KeepBetter(best, mask, qr_i, sc) ==
    IF Better(sc, best.score)
    THEN [score |-> sc, mask |-> mask, version |-> qr_i.version, matrix |-> qr_i.matrix]
    ELSE best

\* one turn of the loop: the candidate of one mask scored against the field
ConsiderMask(best, mask, qr_i, luma) ==
    KeepBetter(best, mask, qr_i, score_mask(qr_i.matrix, luma, qr_i.version))

RECURSIVE SelectMask(_, _, _, _)
\* the loop "for mask in range(8)", best = [score, mask, version, matrix]
SelectMask(mask, best, data, luma) ==
    IF mask >= 8 THEN best
    ELSE SelectMask(mask + 1, ConsiderMask(best, mask, segno_make(data, mask), luma),
                    data, luma)

(***************************************************************************)
(* Suppression: the brightest-background dark modules, up to the budget.   *)
(***************************************************************************)
box == 16
quiet == 6
SuppressCap == 2500

\* a module that is light or protected is no candidate
EligibleDark(matrix, r, c, n, version) ==
    matrix[r][c] /\ ~is_protected(r, c, n, version)

\* the cells in the order of the two loops, row by row
Cells(n) == [i \in 1..(n * n) |-> <<(i - 1) \div n, (i - 1) % n>>]

\* "candidates.append((luma[r][c], r, c))" for the cells kept
WithLuma(kept, luma) ==
    Stored([i \in 1..Len(kept) |-> <<luma[kept[i][1]][kept[i][2]], kept[i][1], kept[i][2]>>])

\* the candidates <<luma, r, c>> in the order of the two loops
Candidates(matrix, luma, version) ==
    LET keep(rc) == EligibleDark(matrix, rc[1], rc[2], MatrixSize(matrix), version)
    IN  WithLuma(SelectSeq(Cells(MatrixSize(matrix)), keep), luma)

\* the order of a sort that puts the darkest first
DarkerFirst(a, b) == a[1] <= b[1]

\* the order of "sort(reverse=True, key=lambda x: x[0])": a stays before b
BrighterFirst(a, b) == a[1] >= b[1]

\* s[j] comes before s[i] in the sorted list
SortsBefore(s, j, i) ==
    \/ j < i /\ BrighterFirst(s[j], s[i])
    \/ j > i /\ ~BrighterFirst(s[i], s[j])

\* the place of s[i] in the sorted list
SortedPlace(s, i) == 1 + Cardinality({j \in 1..Len(s) : SortsBefore(s, j, i)})

\* the list whose element s[i] stands at place[i]
Placed(s, place) == Stored([p \in 1..Len(s) |-> s[CHOOSE i \in 1..Len(s) : place[i] = p]])

\* list.sort is stable: equal keys keep their order
SortCandidates(s) == Placed(s, Stored([i \in 1..Len(s) |-> SortedPlace(s, i)]))

\* a count rounded up, with the cap forgotten
SuppressCountRoundedUp(dark_count, budget) == (dark_count * budget + 999) \div 1000

\* k = int(dark_count * budget); k = min(k, 2500), budget in milli
SuppressCount(dark_count, budget) == Min2((dark_count * budget) \div 1000, SuppressCap)

\* "for i in range(min(k, len(candidates))): removed.add((rr, cc))"
TakeFirst(candidates, k) ==
    {<<candidates[i][2], candidates[i][3]>> : i \in 1..Min2(k, Len(candidates))}

\* "candidates.sort(...); k = ...", dark_count = len(candidates)
SuppressSorted(candidates, budget) ==
    TakeFirst(candidates, SuppressCount(Len(candidates), budget))

\* the block "removed = set(); if art_ok and luma is not None and budget > 0: ..."
Suppress(art_ok, luma, budget, matrix, version) ==
    IF art_ok /\ luma # None /\ budget > 0
    THEN SuppressSorted(SortCandidates(Candidates(matrix, luma, version)), budget)
    ELSE {}

(***************************************************************************)
(* Rendering.  The canvas is the list of the drawing calls made on it, in  *)
(* order: the white ground, the paste of the artwork, one call per module  *)
(* and the four quiet-zone rectangles.  CanvasPixel gives the colour each  *)
(* pixel ends with.  Ellipse corners are in millionths of a pixel.         *)
(***************************************************************************)
Micro == 1000 * 1000

RGBBlack == <<0, 0, 0>>
RGBWhite == <<255, 255, 255>>

NoDraw == [kind |-> "none", xy |-> <<0, 0, 0, 0>>, fill |-> RGBWhite]
Rectangle(xy, fill) == [kind |-> "rectangle", xy |-> xy, fill |-> fill]
Ellipse(xy, fill) == [kind |-> "ellipse", xy |-> xy, fill |-> fill]

\* draw_dot: pad = (1.0 - scale) * box / 2.0, scale in millionths
draw_dot(x0, y0, x1, y1, scale, rgb) ==
    LET pad == ((Micro - scale) * box) \div 2
    IN  Ellipse(<<x0 * Micro + pad, y0 * Micro + pad, x1 * Micro - pad, y1 * Micro - pad>>, rgb)

\* white_scale = max(0.45, min(0.88, dot_scale * 0.88)), in millionths
white_scale(dot_scale) == Max2(450000, Min2(880000, dot_scale * 880))

\* the body of the loop "for r ... for c ..." for one module
DrawModule(matrix, version, removed, dot_scale, r, c) ==
    LET n == MatrixSize(matrix)
        x0 == (quiet + c) * box
        y0 == (quiet + r) * box
        x1 == x0 + box
        y1 == y0 + box
    IN  IF is_protected(r, c, n, version)
        THEN IF matrix[r][c] THEN Rectangle(<<x0, y0, x1, y1>>, RGBBlack)
             ELSE Rectangle(<<x0, y0, x1, y1>>, RGBWhite)
        ELSE IF matrix[r][c]
        THEN IF <<r, c>> \in removed THEN NoDraw
             ELSE draw_dot(x0, y0, x1, y1, dot_scale * 1000, RGBBlack)
        ELSE draw_dot(x0, y0, x1, y1, white_scale(dot_scale), RGBWhite)

\* quiet-zone rectangles that stop one pixel short of the far edge of the band
QuietZoneShort(size) ==
    LET qpx == quiet * box
    IN  <<Rectangle(<<0, 0, size, qpx - 1>>, RGBWhite),
          Rectangle(<<0, size - qpx + 1, size, size>>, RGBWhite),
          Rectangle(<<0, 0, qpx - 1, size>>, RGBWhite),
          Rectangle(<<size - qpx + 1, 0, size, size>>, RGBWhite)>>

\* the four rectangles drawn last
QuietZone(size) ==
    LET qpx == quiet * box
    IN  <<Rectangle(<<0, 0, size, qpx>>, RGBWhite),
          Rectangle(<<0, size - qpx, size, size>>, RGBWhite),
          Rectangle(<<0, 0, qpx, size>>, RGBWhite),
          Rectangle(<<size - qpx, 0, size, size>>, RGBWhite)>>

NoPaste == [on |-> FALSE, sq |-> None, wash |-> 0, at |-> <<0, 0>>]

\* whether a drawing call paints the pixel (x, y): a rectangle includes both of
\* its corners; an ellipse is inscribed in its corners cut to whole pixels
Paints(op, x, y) ==
    CASE op.kind = "rectangle" ->
            op.xy[1] <= x /\ x <= op.xy[3] /\ op.xy[2] <= y /\ y <= op.xy[4]
      [] op.kind = "ellipse" ->
            LET bx0 == op.xy[1] \div Micro
                by0 == op.xy[2] \div Micro
                bx1 == op.xy[3] \div Micro
                by1 == op.xy[4] \div Micro
                w == bx1 - bx0
                h == by1 - by0
                dx == 2 * x - bx0 - bx1
                dy == 2 * y - by0 - by1
            IN  /\ bx0 <= x /\ x <= bx1 /\ by0 <= y /\ y <= by1
                /\ dx * dx * h * h + dy * dy * w * w <= w * w * h * h
      [] OTHER -> FALSE

\* the colour after module (r, c) is drawn over colour
ModuleOver(canvas, colour, r, c, x, y) ==
    LET n == MatrixSize(canvas.modules)
    IN  IF /\ 0 <= r /\ r < n /\ 0 <= c /\ c < n
           /\ Paints(canvas.modules[r][c], x, y)
        THEN canvas.modules[r][c].fill
        ELSE colour

\* the colour after quiet-zone rectangle i is drawn over colour
QuietOver(canvas, colour, i, x, y) ==
    IF Paints(canvas.quiet[i], x, y) THEN canvas.quiet[i].fill ELSE colour

\* the RGB colour of pixel (x, y) of canvas.convert("RGB")
CanvasPixel(canvas, x, y) ==
    LET art == IF canvas.paste.on /\ x >= canvas.paste.at[1] /\ y >= canvas.paste.at[2]
               THEN Washed(SquarePixel(canvas.paste.sq, x - canvas.paste.at[1],
                                       y - canvas.paste.at[2]), canvas.paste.wash)
               ELSE Transparent
        pasted == PasteOver(White, art)
        under == <<pasted[1], pasted[2], pasted[3]>>
        \* the modules whose calls can reach the pixel, in drawing order
        cx == (x - quiet * box) \div box
        cy == (y - quiet * box) \div box
        m1 == ModuleOver(canvas, under, cy - 1, cx - 1, x, y)
        m2 == ModuleOver(canvas, m1, cy - 1, cx, x, y)
        m3 == ModuleOver(canvas, m2, cy, cx - 1, x, y)
        m4 == ModuleOver(canvas, m3, cy, cx, x, y)
        q1 == QuietOver(canvas, m4, 1, x, y)
        q2 == QuietOver(canvas, q1, 2, x, y)
        q3 == QuietOver(canvas, q2, 3, x, y)
    IN  QuietOver(canvas, q3, 4, x, y)

(***************************************************************************)
(* The /generate handler.  Strings are sequences of characters; a query     *)
(* parameter is absent (request.args.get gives None) or present.           *)
(***************************************************************************)
Whitespace == {" "}

RECURSIVE LStrip(_)
LStrip(s) == IF s # <<>> /\ Head(s) \in Whitespace THEN LStrip(Tail(s)) ELSE s

RECURSIVE RStrip(_)
RStrip(s) ==
    IF s # <<>> /\ s[Len(s)] \in Whitespace THEN RStrip(SubSeq(s, 1, Len(s) - 1)) ELSE s

NoArg == [present |-> FALSE, s |-> <<>>]
Arg(s) == [present |-> TRUE, s |-> s]

\* (request.args.get(name) or "").strip()
StrippedArg(v) == IF ~v.present THEN <<>> ELSE RStrip(LStrip(v.s))

\* a handler that fetches whatever the art parameter holds
FetchAlways(art_url) == 1

\* "if art_url: ... fetch_image(art_url)": the number of requests.get calls
FetchCount(art_url) == IF art_url # <<>> THEN 1 ELSE 0

FetchFailed == [ok |-> FALSE, img |-> None]
Fetched(img) == [ok |-> TRUE, img |-> img]

\* the locals of a request that ended before a matrix was made
EarlyLocals(data, art_url, dot_scale, wash, budget, fetches, art_ok) ==
    [data |-> data, art_url |-> art_url, dot_scale |-> dot_scale, wash |-> wash,
     budget |-> budget, fetches |-> fetches, art_ok |-> art_ok, luma |-> None,
     best_mask |-> NoMask, best_version |-> 0, matrix |-> <<>>, removed |-> {}]

\* lines 349-416: the canvas drawn from the chosen matrix
RenderImage(matrix, version, removed, dot_scale, art_ok, art_square, wash) ==
    [size |-> (MatrixSize(matrix) + 2 * quiet) * box,
     paste |-> IF art_ok /\ art_square # None
               THEN [on |-> TRUE, sq |-> art_square, wash |-> wash,
                     at |-> <<quiet * box, quiet * box>>]
               ELSE NoPaste,
     modules |-> Stored([r \in 0..(MatrixSize(matrix) - 1) |->
                    Stored([c \in 0..(MatrixSize(matrix) - 1) |->
                       DrawModule(matrix, version, removed, dot_scale, r, c)])]),
     quiet |-> QuietZone((MatrixSize(matrix) + 2 * quiet) * box)]

\* "return 'Missing QR data', 400"
MissingData(lc) ==
    [resp |-> [status |-> 400, body |-> "Missing QR data", canvas |-> None], loc |-> lc]

\* segno.make raised and nothing caught it: Flask answers 500
EncodingFailed(lc) ==
    [resp |-> [status |-> 500, body |-> "DataOverflowError", canvas |-> None], loc |-> lc]

\* lines 353-421 with the suppressed set known: the image is drawn and sent
SendImage(lc, matrix, version, mask, luma, art_square, removed) ==
    [resp |-> [status |-> 200, body |-> "image/png",
               canvas |-> RenderImage(matrix, version, removed, lc.dot_scale,
                                      lc.art_ok, art_square, lc.wash)],
     loc |-> [lc EXCEPT !.luma = luma, !.best_mask = mask, !.best_version = version,
                        !.matrix = matrix, !.removed = removed]]

\* lines 349-421: from the chosen matrix to the response
Finish(lc, matrix, version, mask, luma, art_square) ==
    SendImage(lc, matrix, version, mask, luma, art_square,
              Suppress(lc.art_ok, luma, lc.budget, matrix, version))

\* "if not art_ok": the encoder's own mask, no artwork
PlainBranch(lc, qr0) ==
    IF qr0.raised THEN EncodingFailed(lc)
    ELSE Finish(lc, qr0.matrix, qr0.version, NoMask, None, None)

\* lines 328-331: the luminance of each cell of the n x n reduction
LumaGrid(art_square, wash, n) ==
    Stored([r \in 0..(n - 1) |-> Stored([c \in 0..(n - 1) |->
               luminance_rgba(TinyPixel(art_square, wash, box, r, c))])])

\* lines 346-350: the best candidate becomes the matrix drawn
UseBest(lc, best, luma, art_square) ==
    Finish(lc, best.matrix, best.version, best.mask, luma, art_square)

\* lines 333-344: the eight masks scored against the luminance grid
ScoreMasks(lc, art_square, luma) ==
    UseBest(lc, SelectMask(0, [score |-> LowestScore, mask |-> NoMask,
                               version |-> 0, matrix |-> <<>>], lc.data, luma),
            luma, art_square)

\* lines 321-331: the normalised square, washed and reduced to n x n
WithSquare(lc, art_square, n) == ScoreMasks(lc, art_square, LumaGrid(art_square, lc.wash, n))

\* the else branch: tmp gives the size, the artwork is normalised to n * box
ArtBranch(lc, tmp, art_img) ==
    IF tmp.raised THEN EncodingFailed(lc)
    ELSE WithSquare(lc,
                    normalize_artwork_into_square(art_img, symbol_size(tmp.version) * box),
                    symbol_size(tmp.version))

\* lines 282-421, the parameters read and the fetch attempted
Respond(lc, nt) ==
    IF lc.data = <<>> THEN MissingData([lc EXCEPT !.fetches = 0, !.art_ok = FALSE])
    ELSE IF ~lc.art_ok THEN PlainBranch(lc, segno_make(lc.data, NoMask))
    ELSE ArtBranch(lc, segno_make(lc.data, 0), nt.img)

\* lines 275-300: the parameters, and the fetch if art is given
ReadRequest(data, art_url, dot_scale, wash, budget, nt) ==
    Respond(EarlyLocals(data, art_url, dot_scale, wash, budget, FetchCount(art_url),
                        FetchCount(art_url) > 0 /\ nt.ok), nt)

\* generate(): the response and the locals at the return
generate(req, nt) ==
    ReadRequest(StrippedArg(req.data), StrippedArg(req.art),
                clamp(req.dot, DotRange.lo, DotRange.hi, DotRange.default).v,
                clamp(req.wash, WashRange.lo, WashRange.hi, WashRange.default).v,
                clamp(req.budget, BudgetRange.lo, BudgetRange.hi, BudgetRange.default).v,
                nt)

Grey(v, a) == <<v, v, v, a>>

\* an artwork URL and what fetching it may yield: a failure, or an image
ArtUrl == <<"h", "t", "t", "p">>
Artworks ==
    {Solid(400, 100, Black), Solid(64, 64, Black), Solid(100, 400, Grey(128, 255)),
     Image(40, 40, <<4, 4, 36, 30>>, Grey(40, 200), Transparent)}

DataV1 == <<"a">>
DataV2 == <<"a", "b", "c", "d", "e", "f", "g", "h">>
DataPadded == <<" ", "q", "r", " ">>
DataTooLong == [i \in 1..(SegnoByteCapacityH[40] + 1) |-> "x"]

Requests ==
    \* artwork asked for, a version 1 symbol
    {[data |-> Arg(DataV1), art |-> Arg(ArtUrl), dot |-> dt, wash |-> w, budget |-> b] :
        dt \in {Absent, Num(920)}, w \in {Num(0), Absent},
        b \in {Num(0), Absent, Num(180), Text("inf")}}
    \cup
    \* artwork asked for, a version 2 symbol (it has an alignment pattern)
    {[data |-> Arg(DataV2), art |-> Arg(ArtUrl), dot |-> Absent, wash |-> w, budget |-> b] :
        w \in {Num(0), Absent}, b \in {Absent, Num(180)}}
    \cup
    \* no artwork asked for
    {[data |-> Arg(d), art |-> a, dot |-> dt, wash |-> Absent, budget |-> b] :
        d \in {DataV1, DataV2, DataPadded}, a \in {NoArg, Arg(<<" ">>)},
        dt \in {Absent, Num(550), Num(920)}, b \in {Absent, Num(180)}}
    \cup
    \* no data, or more data than any version holds
    {[data |-> d, art |-> a, dot |-> Absent, wash |-> Absent, budget |-> Absent] :
        d \in {NoArg, Arg(<<>>), Arg(<<" ", " ">>), Arg(DataTooLong)},
        a \in {NoArg, Arg(ArtUrl)}}

Init ==
    /\ pc = "call"
    /\ call = None
    /\ ret = None
    /\ request \in Requests
    /\ net \in {FetchFailed} \cup {Fetched(img) : img \in Artworks}
    \* what the network would yield matters only to a request that fetches
    /\ StrippedArg(request.art) = <<>> => net = FetchFailed
    /\ resp = None
    /\ loc = None

Generate ==
    /\ pc = "call"
    /\ request # None
    /\ \E out \in {generate(request, net)} :
          /\ resp' = out.resp
          /\ loc' = out.loc
    /\ pc' = "done"
    /\ UNCHANGED <<call, ret, request, net>>

Next == Generate

Spec == Init /\ [][Next]_vars

(***************************************************************************)
(* Properties of generate.  Pixels are read at the first two, the middle   *)
(* and the last pixel of every module and of the quiet zone, on each axis. *)
(***************************************************************************)
ImageMade == pc = "done" /\ resp.status = 200

AxisSamples(size) ==
    {m * box + o : m \in 0..((size \div box) - 1), o \in {0, 1, 8, 15}}

InBorder(size, x, y) ==
    \/ x < quiet * box \/ x >= size - quiet * box
    \/ y < quiet * box \/ y >= size - quiet * box

\* the dark modules that are not protected
EligibleSet(matrix, version) ==
    LET n == MatrixSize(matrix)
    IN  {rc \in (0..(n - 1)) \X (0..(n - 1)) :
            matrix[rc[1]][rc[2]] /\ ~is_protected(rc[1], rc[2], n, version)}

\* C1: in every image produced, every pixel of the border band of width
\* quiet * box on the four sides is pure white.
C1_QuietZoneWhite ==
    ImageMade =>
        \A x \in AxisSamples(resp.canvas.size) : \A y \in AxisSamples(resp.canvas.size) :
            InBorder(resp.canvas.size, x, y) => CanvasPixel(resp.canvas, x, y) = RGBWhite

\* an image whose border held artwork and a module's black before the
\* quiet-zone rectangles were drawn
C1_Witness ==
    /\ ImageMade
    /\ resp.canvas.paste.on
    /\ LET size == resp.canvas.size
           before == [resp.canvas EXCEPT !.quiet = <<NoDraw, NoDraw, NoDraw, NoDraw>>]
       IN  /\ CanvasPixel(before, size - 8, size \div 2) # RGBWhite
           /\ CanvasPixel(before, size - quiet * box, quiet * box + 8) = RGBBlack
           /\ CanvasPixel(resp.canvas, size - 8, size \div 2) = RGBWhite

\* C2: the suppressed modules are at most floor(eligible_dark_count * budget)
\* and at most 2500, and each is a dark module that is not protected.
C2_SuppressionBound ==
    ImageMade =>
        LET eligible == EligibleSet(loc.matrix, loc.best_version)
        IN  /\ loc.budget \in 0..180
            /\ Cardinality(loc.removed) * 1000 <= Cardinality(eligible) * loc.budget
            /\ Cardinality(loc.removed) <= 2500
            /\ loc.removed \subseteq eligible

\* modules were suppressed under the largest budget, next to bright protected ones
C2_Witness ==
    /\ ImageMade
    /\ loc.budget = 180
    /\ Cardinality(loc.removed) > 10
    /\ loc.matrix[0][0]
    /\ loc.luma[0][0] >= loc.luma[9][9]

\* C5: with artwork fetched, the mask selected has the greatest score_mask
\* value of the eight candidates, and is the lowest index that has it.
C5_BestMaskFirstMaximum ==
    (ImageMade /\ loc.art_ok) =>
        LET sc(m) == score_mask(segno_make(loc.data, m).matrix, loc.luma,
                                segno_make(loc.data, m).version)
        IN  /\ loc.best_mask \in 0..7
            /\ loc.matrix = segno_make(loc.data, loc.best_mask).matrix
            /\ sc(loc.best_mask).den =
                  Cardinality({rc \in (DOMAIN loc.matrix) \X (DOMAIN loc.matrix) :
                        ~is_protected(rc[1], rc[2], MatrixSize(loc.matrix),
                                      loc.best_version)})
            /\ \A m \in 0..7 :
                  /\ ~ScoreGT(sc(m), sc(loc.best_mask))
                  /\ sc(m) = sc(loc.best_mask) => loc.best_mask <= m

\* two masks shared the greatest score and the lower one was selected
C5_Witness ==
    /\ ImageMade
    /\ loc.art_ok
    /\ \E m \in 0..7 :
          /\ m > loc.best_mask
          /\ score_mask(segno_make(loc.data, m).matrix, loc.luma, loc.best_version)
                = score_mask(loc.matrix, loc.luma, loc.best_version)

\* the image of a request with the same data and dot scale and no art parameter
PlainImage(data, dot_scale) ==
    LET qr0 == segno_make(data, NoMask)
        n == qr_size_from_version(qr0.version)
    IN  [size |-> (n + 2 * quiet) * box,
         paste |-> NoPaste,
         modules |-> [r \in 0..(n - 1) |-> [c \in 0..(n - 1) |->
                        DrawModule(qr0.matrix, qr0.version, {}, dot_scale, r, c)]],
         quiet |-> QuietZone((n + 2 * quiet) * box)]

\* a request with data whose art parameter is empty or whose fetch failed
NoArtwork ==
    /\ pc = "done"
    /\ loc.data # <<>>
    /\ loc.art_url = <<>> \/ ~net.ok

\* what C6 says of such a request: no fetch when art is empty, an image with
\* the encoder's default mask, nothing pasted, nothing suppressed
PlainOutcome ==
    /\ loc.art_url = <<>> => loc.fetches = 0
    /\ resp.status = 200
    /\ loc.best_mask = NoMask
    /\ loc.matrix = segno_make(loc.data, NoMask).matrix
    /\ loc.removed = {}
    /\ ~resp.canvas.paste.on
    /\ resp.canvas = PlainImage(loc.data, loc.dot_scale)

\* C6 as stated: for any non-empty data, a request whose art is empty or whose
\* fetch fails still produces the plain image.
C6_AnyDataPlainImage == NoArtwork => PlainOutcome

\* C6 amended: the same, for data the encoder can encode.
C6_EncodableDataPlainImage ==
    (NoArtwork /\ SegnoVersion(loc.data) # 0) => PlainOutcome

\* a fetch that failed, under a budget that would suppress
C6_Witness ==
    /\ NoArtwork
    /\ loc.fetches = 1
    /\ loc.budget = 180
    /\ resp.status = 200

\* C7: every pixel of the cell of a protected module is black if the module
\* is dark and white if it is light.
C7_ProtectedCellsFlat ==
    ImageMade =>
        LET n == MatrixSize(loc.matrix)
        IN  \A r \in 0..(n - 1) : \A c \in 0..(n - 1) :
               is_protected(r, c, n, loc.best_version) =>
                  \A dx \in {0, 1, 8, 15} : \A dy \in {0, 1, 8, 15} :
                     CanvasPixel(resp.canvas, (quiet + c) * box + dx, (quiet + r) * box + dy)
                        = IF loc.matrix[r][c] THEN RGBBlack ELSE RGBWhite

=============================================================================
